---- MODULE Spec2Model ----
(***************************************************************************)
(* A model of the propositional-logic engine of propositions/syntax.py and *)
(* propositions/semantics.py: formula trees, the infix and the Polish      *)
(* parser, the two substitutions, evaluation, model enumeration, the       *)
(* classification predicates and DNF/CNF synthesis.                        *)
(*                                                                         *)
(* A Python string is a sequence of one-character strings (<<"-", ">">> is *)
(* '->'); a diagnostic message is a sequence whose first element is the    *)
(* literal text of the message.  A Formula is a record with the fields the *)
(* constructor sets: root, and first / second when the root is an          *)
(* operator.  A dict is a function whose domain is its key set.            *)
(***************************************************************************)
EXTENDS Integers, Sequences, FiniteSets, TLC

VARIABLES formula, string, model, variable_names, values, substitution_map,
          result, pc

vars == <<formula, string, model, variable_names, values, substitution_map,
          result, pc>>

(* formula           the Formula an operation is applied to                *)
(* string            the str printed from it, or given to a parser         *)
(* model             the Model given to evaluate                           *)
(* variable_names    the variables argument of all_models and synthesize   *)
(* values            the values argument of synthesize and synthesize_cnf  *)
(* substitution_map  the argument of the two substitutions                 *)
(* result            what the operation called last returned, or           *)
(*                   AssertionError when one of its asserts failed         *)
(* pc                the operation called last                             *)

-----------------------------------------------------------------------------
(* Bounds of the model.                                                    *)

\* Largest number of nodes of an input formula of the syntax specification.
MaxNodes == 4
\* Largest number of nodes of a seed formula of the strings specification.
MaxSeedNodes == 3
\* Largest number of nodes of an input formula of the semantics specification.
MaxEvalNodes == 4
\* Largest number of variable names given to all_models and the synthesizers.
MaxVars == 2
\* Largest number of nodes of a receiver formula of the substitutions.
MaxSubstNodes == 5
\* Largest number of nodes of a receiver formula whose meaning is compared
\* before and after the substitution of operators.
MaxMeaningNodes == 4

-----------------------------------------------------------------------------
(* Python values and string primitives.                                    *)

None == [none |-> TRUE]

AssertionError == [error |-> "AssertionError"]

\* A decimal digit outside ASCII (ARABIC-INDIC DIGIT THREE, category Nd).
ArabicIndicThree == "U+0663"

Digits == {"0", "1", "2"}

Letters == {"p", "q", "r", "x", "a", "T", "F"}

Symbols == {"~", "(", ")", "&", "|", "-", ">", "<", "+", "#"}

\* ord(c) on the characters of the model.
CodePoint(c) ==
    CASE c = "#" -> 35   [] c = "&" -> 38   [] c = "(" -> 40
      [] c = ")" -> 41   [] c = "+" -> 43   [] c = "-" -> 45
      [] c = "0" -> 48   [] c = "1" -> 49   [] c = "2" -> 50
      [] c = "<" -> 60   [] c = ">" -> 62   [] c = "F" -> 70
      [] c = "T" -> 84   [] c = "a" -> 97   [] c = "p" -> 112
      [] c = "q" -> 113  [] c = "r" -> 114  [] c = "x" -> 120
      [] c = "|" -> 124  [] c = "~" -> 126
      [] c = ArabicIndicThree -> 1635

\* str.isdecimal: nonempty, and every character is a decimal digit of any
\* script.
isdecimal(s) ==
    Len(s) > 0 /\ \A i \in 1..Len(s) : s[i] \in Digits \cup {ArabicIndicThree}

\* str.isalpha on a one-character string.
isalpha(s) == Len(s) > 0 /\ \A i \in 1..Len(s) : s[i] \in Letters

\* s[i:] (i counted from 0, as in Python).
SliceFrom(s, i) == SubSeq(s, i + 1, Len(s))

\* s[:i]
SliceTo(s, i) == SubSeq(s, 1, IF i < Len(s) THEN i ELSE Len(s))

startswith(s, prefix) ==
    Len(s) >= Len(prefix) /\ SubSeq(s, 1, Len(prefix)) = prefix

\* Lexicographic order of Python strings: s < t.
RECURSIVE StrLess(_, _)
StrLess(s, t) ==
    IF Len(t) = 0 THEN FALSE
    ELSE IF Len(s) = 0 THEN TRUE
    ELSE IF s[1] = t[1] THEN StrLess(Tail(s), Tail(t))
    ELSE CodePoint(s[1]) < CodePoint(t[1])

\* sorted(S) for a set of strings S.
RECURSIVE sorted(_)
sorted(S) ==
    IF S = {} THEN <<>>
    ELSE LET least == CHOOSE s \in S : \A t \in S \ {s} : StrLess(s, t)
         IN  <<least>> \o sorted(S \ {least})

Range(seq) == {seq[i] : i \in 1..Len(seq)}

-----------------------------------------------------------------------------
(* Token classifiers.                                                      *)

is_variable(s) ==
    /\ CodePoint(s[1]) >= CodePoint("p")
    /\ CodePoint(s[1]) <= 122
    /\ (Len(s) = 1 \/ isdecimal(SliceFrom(s, 1)))

is_constant(s) == s = <<"T">> \/ s = <<"F">>

is_unary(s) == s = <<"~">>

BinaryOperators ==
    {<<"&">>, <<"|">>, <<"-", ">">>, <<"+">>, <<"<", "-", ">">>,
     <<"-", "&">>, <<"-", "|">>}

is_binary(s) == s \in BinaryOperators

-----------------------------------------------------------------------------
(* Formula: constructor, printing, variables, operators.                   *)

\* Formula.__init__: the shape assertions decide which fields are set.
Formula(root, first, second) ==
    IF is_variable(root) \/ is_constant(root)
    THEN IF first = None /\ second = None
         THEN [root |-> root] ELSE AssertionError
    ELSE IF is_unary(root)
    THEN IF first # None /\ second = None
         THEN [root |-> root, first |-> first] ELSE AssertionError
    ELSE IF is_binary(root) /\ first # None /\ second # None
         THEN [root |-> root, first |-> first, second |-> second]
         ELSE AssertionError

\* getattr(f, 'first', None) and getattr(f, 'second', None)
getattr_first(f) == IF "first" \in DOMAIN f THEN f.first ELSE None

getattr_second(f) == IF "second" \in DOMAIN f THEN f.second ELSE None

RECURSIVE __repr__(_)
__repr__(f) ==
    IF is_variable(f.root) \/ is_constant(f.root) THEN f.root
    ELSE IF is_unary(f.root) THEN <<"~">> \o __repr__(f.first)
    ELSE <<"(">> \o __repr__(f.first) \o f.root \o __repr__(f.second)
         \o <<")">>

RECURSIVE formula_variables(_)
formula_variables(f) ==
    IF is_variable(f.root) THEN {f.root}
    ELSE IF is_constant(f.root) THEN {}
    ELSE IF is_unary(f.root) THEN formula_variables(f.first)
    ELSE formula_variables(f.first) \cup formula_variables(f.second)

RECURSIVE operators(_)
operators(f) ==
    IF is_variable(f.root) THEN {}
    ELSE IF is_constant(f.root) THEN {f.root}
    ELSE IF is_unary(f.root) THEN {f.root} \cup operators(f.first)
    ELSE {f.root} \cup operators(f.first) \cup operators(f.second)

RECURSIVE polish(_)
polish(f) ==
    IF is_variable(f.root) \/ is_constant(f.root) THEN f.root
    ELSE IF is_unary(f.root) THEN <<"~">> \o polish(f.first)
    ELSE f.root \o polish(f.first) \o polish(f.second)

-----------------------------------------------------------------------------
(* Parsing.  A parse result is a pair <<formula or None, rest or message>>. *)

\* The scan loop of the variable-name branch: the first index i >= 1 with
\* i = len(string) or string[i] not a decimal digit.
RECURSIVE ScanDecimal(_, _)
ScanDecimal(s, i) ==
    IF i < Len(s) /\ isdecimal(<<s[i + 1]>>) THEN ScanDecimal(s, i + 1) ELSE i

\* The variable-name branch shared by both parsers.
ParseName(s) ==
    LET i     == ScanDecimal(s, 1)
        token == SliceTo(s, i)
    IN  IF is_variable(token)
        THEN <<Formula(token, None, None), SliceFrom(s, i)>>
        ELSE <<None, <<"invalid variable name: ">> \o token>>

\* A scan that knows no three-character operator.
BinaryOperatorLengthNoThree(rest) ==
    IF startswith(rest, <<"-", ">">>) THEN 2
    ELSE IF Len(rest) >= 2 /\ is_binary(SliceTo(rest, 2)) THEN 2
    ELSE IF Len(rest) >= 1 /\ is_binary(<<rest[1]>>) THEN 1
    ELSE 0

\* The operator scan after the left operand: the length of the binary
\* operator that rest starts with, 0 when it starts with none.
BinaryOperatorLength(rest) ==
    IF startswith(rest, <<"-", ">">>) THEN 2
    ELSE IF Len(rest) >= 3 /\ is_binary(SliceTo(rest, 3)) THEN 3
    ELSE IF Len(rest) >= 2 /\ is_binary(SliceTo(rest, 2)) THEN 2
    ELSE IF Len(rest) >= 1 /\ is_binary(<<rest[1]>>) THEN 1
    ELSE 0

RECURSIVE _parse_prefix(_)
_parse_prefix(s) ==
    IF Len(s) = 0 THEN <<None, <<"unexpected end of input">> >>
    ELSE LET char == <<s[1]>> IN
    IF is_constant(char) THEN <<Formula(char, None, None), SliceFrom(s, 1)>>
    ELSE IF isalpha(char) THEN ParseName(s)
    ELSE IF char = <<"~">> THEN
        LET sub == _parse_prefix(SliceFrom(s, 1)) IN
        IF sub[1] = None THEN <<None, sub[2]>>
        ELSE <<Formula(<<"~">>, sub[1], None), sub[2]>>
    ELSE IF char = <<"(">> THEN
        LET l    == _parse_prefix(SliceFrom(s, 1))
            rest == l[2]
            n    == BinaryOperatorLength(rest)
            op   == SliceTo(rest, n)
            r    == _parse_prefix(SliceFrom(rest, n))
        IN  IF l[1] = None THEN <<None, l[2]>>
            ELSE IF n = 0 THEN <<None, <<"expected binary operator">> >>
            ELSE IF r[1] = None THEN <<None, r[2]>>
            ELSE IF ~(Len(r[2]) > 0 /\ r[2][1] = ")")
                 THEN <<None, <<"expected ')'">> >>
            ELSE <<Formula(op, l[1], r[1]), SliceFrom(r[2], 1)>>
    ELSE <<None, <<"unexpected token: ">> \o char>>

is_formula(s) ==
    LET got == _parse_prefix(s) IN got[1] # None /\ got[2] = <<>>

parse(s) ==
    IF ~is_formula(s) THEN AssertionError
    ELSE LET got == _parse_prefix(s) IN
         IF got[1] # None /\ got[2] = <<>> THEN got[1] ELSE AssertionError

\* The two-operand branches of the Polish parser ('->', '&', '|').
RECURSIVE _parse_polish_prefix(_)

\* Two-operand branches that report a failed left operand in their own words.
PolishBinaryOwnMessage(op, s) ==
    LET l == _parse_polish_prefix(SliceFrom(s, Len(op)))
        r == _parse_polish_prefix(l[2])
    IN  IF l[1] = None THEN <<None, <<"unexpected end of input">> >>
        ELSE IF r[1] = None THEN <<None, r[2]>>
        ELSE <<Formula(op, l[1], r[1]), r[2]>>

PolishBinary(op, s) ==
    LET l == _parse_polish_prefix(SliceFrom(s, Len(op)))
        r == _parse_polish_prefix(l[2])
    IN  IF l[1] = None THEN <<None, l[2]>>
        ELSE IF r[1] = None THEN <<None, r[2]>>
        ELSE <<Formula(op, l[1], r[1]), r[2]>>

_parse_polish_prefix(s) ==
    IF Len(s) = 0 THEN <<None, <<"unexpected end of input">> >>
    ELSE IF startswith(s, <<"-", ">">>) THEN PolishBinary(<<"-", ">">>, s)
    ELSE LET char == <<s[1]>> IN
    IF is_constant(char) THEN <<Formula(char, None, None), SliceFrom(s, 1)>>
    ELSE IF char = <<"~">> THEN
        LET sub == _parse_polish_prefix(SliceFrom(s, 1)) IN
        IF sub[1] = None THEN <<None, sub[2]>>
        ELSE <<Formula(<<"~">>, sub[1], None), sub[2]>>
    ELSE IF char \in {<<"&">>, <<"|">>} THEN PolishBinary(char, s)
    ELSE IF isalpha(char) THEN ParseName(s)
    ELSE <<None, <<"unexpected token: ">> \o char>>

parse_polish(s) ==
    LET got == _parse_polish_prefix(s) IN
    IF got[1] # None /\ got[2] = <<>> THEN got[1] ELSE AssertionError

-----------------------------------------------------------------------------
(* Input formulas: every tree the constructor accepts, by number of nodes. *)

VariableNames == {<<"p">>, <<"q">>, <<"x", "1", "2">>}

Leaves == {Formula(a, None, None) : a \in VariableNames \cup {<<"T">>, <<"F">>}}

RECURSIVE FormulasOfSize(_, _)
FormulasOfSize(leaves, n) ==
    IF n = 1 THEN leaves
    ELSE {Formula(<<"~">>, g, None) : g \in FormulasOfSize(leaves, n - 1)}
         \cup UNION {
              {Formula(op, a, b) : op \in BinaryOperators,
                                   a \in FormulasOfSize(leaves, i),
                                   b \in FormulasOfSize(leaves, n - 1 - i)}
              : i \in 1..(n - 2)}

FormulasUpTo(leaves, n) == UNION {FormulasOfSize(leaves, k) : k \in 1..n}

-----------------------------------------------------------------------------
(* The syntax specification: print a formula in either notation, parse it  *)
(* back.                                                                   *)

InitSyntax ==
    /\ formula \in FormulasUpTo(Leaves, MaxNodes)
    /\ string = <<>>
    /\ model = <<>>
    /\ variable_names = <<>>
    /\ values = <<>>
    /\ substitution_map = <<>>
    /\ result = None
    /\ pc = "start"

Polish ==
    /\ pc = "start"
    /\ string' = polish(formula)
    /\ pc' = "polish"
    /\ UNCHANGED <<formula, model, variable_names, values, substitution_map,
                   result>>

ParsePolish ==
    /\ pc = "polish"
    /\ result' = parse_polish(string)
    /\ pc' = "parse_polish"
    /\ UNCHANGED <<formula, string, model, variable_names, values,
                   substitution_map>>

Repr ==
    /\ pc = "start"
    /\ string' = __repr__(formula)
    /\ pc' = "repr"
    /\ UNCHANGED <<formula, model, variable_names, values, substitution_map,
                   result>>

IsFormula ==
    /\ pc = "repr"
    /\ result' = is_formula(string)
    /\ pc' = "is_formula"
    /\ UNCHANGED <<formula, string, model, variable_names, values,
                   substitution_map>>

Parse ==
    /\ pc \in {"repr", "is_formula"}
    /\ result' = parse(string)
    /\ pc' = "parse"
    /\ UNCHANGED <<formula, string, model, variable_names, values,
                   substitution_map>>

NextSyntax == Polish \/ ParsePolish \/ Repr \/ IsFormula \/ Parse

SpecSyntax == InitSyntax /\ [][NextSyntax]_vars

(* C1: for every formula f of the grammar, parse_polish(f.polish())        *)
(* succeeds and returns a formula equal to f.                              *)
C1_PolishRoundTrip == pc = "parse_polish" => result = formula

(* C2: for every formula f of the grammar, is_formula(str(f)) is true and  *)
(* parse(str(f)) returns a formula with the same root and the same         *)
(* operands at every node.                                                 *)
C2_InfixRoundTrip ==
    /\ pc = "is_formula" => result = TRUE
    /\ pc = "parse" => result = formula

C2_Witness ==
    /\ pc = "parse"
    /\ result = formula
    /\ formula.root = <<"<", "-", ">">>
    /\ formula.first.root = <<"~">>
    /\ formula.second.root = <<"x", "1", "2">>

-----------------------------------------------------------------------------
(* Semantics: models, evaluation, enumeration of models, classification.   *)

is_model(m) == \A key \in DOMAIN m : is_variable(key)

\* variables(model) of semantics.py: the key set of a model.
variables(m) == IF is_model(m) THEN DOMAIN m ELSE AssertionError

\* NAND computed as "neither operand holds".
evaluate_binary_nand_as_nor(root, first_value, second_value) ==
    IF root = <<"&">> THEN first_value /\ second_value
    ELSE IF root = <<"|">> THEN first_value \/ second_value
    ELSE IF root = <<"-", ">">> THEN (~first_value) \/ second_value
    ELSE IF root = <<"+">> THEN first_value # second_value
    ELSE IF root = <<"<", "-", ">">> THEN first_value = second_value
    ELSE IF root = <<"-", "&">> THEN ~(first_value \/ second_value)
    ELSE IF root = <<"-", "|">> THEN ~(first_value \/ second_value)
    ELSE AssertionError

\* The chain of binary cases of evaluate, on the values of the two operands.
evaluate_binary(root, first_value, second_value) ==
    IF root = <<"&">> THEN first_value /\ second_value
    ELSE IF root = <<"|">> THEN first_value \/ second_value
    ELSE IF root = <<"-", ">">> THEN (~first_value) \/ second_value
    ELSE IF root = <<"+">> THEN first_value # second_value
    ELSE IF root = <<"<", "-", ">">> THEN first_value = second_value
    ELSE IF root = <<"-", "&">> THEN ~(first_value /\ second_value)
    ELSE IF root = <<"-", "|">> THEN ~(first_value \/ second_value)
    ELSE AssertionError

\* An evaluation that reads a variable the model lacks as false.
RECURSIVE evaluate_missing_as_false(_, _)
evaluate_missing_as_false(f, m) ==
    IF ~is_model(m) THEN AssertionError
    ELSE IF is_variable(f.root)
    THEN IF f.root \in DOMAIN m THEN m[f.root] ELSE FALSE
    ELSE IF is_constant(f.root) THEN f.root = <<"T">>
    ELSE IF is_unary(f.root) THEN ~evaluate_missing_as_false(f.first, m)
    ELSE IF ~is_binary(f.root) THEN AssertionError
    ELSE evaluate_binary(f.root, evaluate_missing_as_false(f.first, m),
                         evaluate_missing_as_false(f.second, m))

\* An evaluation that reads, for a variable, the first binding of the model.
RECURSIVE evaluate_first_binding(_, _)
evaluate_first_binding(f, m) ==
    IF ~is_model(m) THEN AssertionError
    ELSE IF ~(formula_variables(f) \subseteq variables(m)) THEN AssertionError
    ELSE IF is_variable(f.root) THEN m[sorted(DOMAIN m)[1]]
    ELSE IF is_constant(f.root) THEN f.root = <<"T">>
    ELSE IF is_unary(f.root) THEN ~evaluate_first_binding(f.first, m)
    ELSE IF ~is_binary(f.root) THEN AssertionError
    ELSE evaluate_binary(f.root, evaluate_first_binding(f.first, m),
                         evaluate_first_binding(f.second, m))

RECURSIVE evaluate(_, _)
evaluate(f, m) ==
    IF ~is_model(m) THEN AssertionError
    ELSE IF ~(formula_variables(f) \subseteq variables(m)) THEN AssertionError
    ELSE IF is_variable(f.root) THEN m[f.root]
    ELSE IF is_constant(f.root) THEN f.root = <<"T">>
    ELSE IF is_unary(f.root) THEN ~evaluate(f.first, m)
    ELSE IF ~is_binary(f.root) THEN AssertionError
    ELSE evaluate_binary(f.root, evaluate(f.first, m), evaluate(f.second, m))

RECURSIVE Pow2(_)
Pow2(n) == IF n = 0 THEN 1 ELSE 2 * Pow2(n - 1)

\* The bits of the mask read from the least significant end.
MaskBitLeastFirst(mask, n, i) == ((mask \div Pow2(i)) % 2) = 1

\* bool((mask >> (n - 1 - i)) & 1)
MaskBit(mask, n, i) == ((mask \div Pow2(n - 1 - i)) % 2) = 1

\* The dict built by the inner loop of all_models for one mask: a later
\* occurrence of a name overwrites an earlier one.
ModelOfMask(names, mask) ==
    LET n == Len(names)
        last(v) == CHOOSE i \in 1..n :
                      names[i] = v /\ \A j \in (i + 1)..n : names[j] # v
    IN  [v \in Range(names) |-> MaskBit(mask, n, last(v) - 1)]

\* list(all_models(names)): the models in the order they are yielded.
all_models(names) ==
    IF \E i \in 1..Len(names) : ~is_variable(names[i]) THEN AssertionError
    ELSE [k \in 1..Pow2(Len(names)) |-> ModelOfMask(names, k - 1)]

\* The loop of is_tautology from the k-th model on.
RECURSIVE TautologyLoop(_, _, _)
TautologyLoop(f, models, k) ==
    IF k > Len(models) THEN TRUE
    ELSE IF ~evaluate(f, models[k]) THEN FALSE
    ELSE TautologyLoop(f, models, k + 1)

is_tautology(f) ==
    TautologyLoop(f, all_models(sorted(formula_variables(f))), 1)

RECURSIVE ContradictionLoop(_, _, _)
ContradictionLoop(f, models, k) ==
    IF k > Len(models) THEN TRUE
    ELSE IF evaluate(f, models[k]) THEN FALSE
    ELSE ContradictionLoop(f, models, k + 1)

is_contradiction(f) ==
    ContradictionLoop(f, all_models(sorted(formula_variables(f))), 1)

RECURSIVE SatisfiableLoop(_, _, _)
SatisfiableLoop(f, models, k) ==
    IF k > Len(models) THEN FALSE
    ELSE IF evaluate(f, models[k]) THEN TRUE
    ELSE SatisfiableLoop(f, models, k + 1)

\* A loop that returns the value in the first model.
is_satisfiable_first_model_only(f) ==
    evaluate(f, all_models(sorted(formula_variables(f)))[1])

is_satisfiable(f) ==
    SatisfiableLoop(f, all_models(sorted(formula_variables(f))), 1)

-----------------------------------------------------------------------------
(* The semantics specification: evaluate a formula in a model, classify    *)
(* it.                                                                     *)

EvalLeaves == {Formula(a, None, None) : a \in {<<"p">>, <<"q">>, <<"T">>, <<"F">>}}

\* Every model over a subset of the variable names.
Models == UNION {[S -> BOOLEAN] : S \in SUBSET VariableNames}

InitSemantics ==
    /\ formula \in FormulasUpTo(EvalLeaves, MaxEvalNodes)
    /\ string = <<>>
    /\ model = <<>>
    /\ variable_names = <<>>
    /\ values = <<>>
    /\ substitution_map = <<>>
    /\ result = None
    /\ pc = "start"

Evaluate ==
    /\ pc = "start"
    /\ \E m \in Models :
         /\ model' = m
         /\ result' = evaluate(formula, m)
    /\ pc' = "evaluate"
    /\ UNCHANGED <<formula, string, variable_names, values, substitution_map>>

IsTautology ==
    /\ pc = "start"
    /\ result' = is_tautology(formula)
    /\ pc' = "is_tautology"
    /\ UNCHANGED <<formula, string, model, variable_names, values,
                   substitution_map>>

IsContradiction ==
    /\ pc = "start"
    /\ result' = is_contradiction(formula)
    /\ pc' = "is_contradiction"
    /\ UNCHANGED <<formula, string, model, variable_names, values,
                   substitution_map>>

IsSatisfiable ==
    /\ pc = "start"
    /\ result' = is_satisfiable(formula)
    /\ pc' = "is_satisfiable"
    /\ UNCHANGED <<formula, string, model, variable_names, values,
                   substitution_map>>

NextSemantics == Evaluate \/ IsTautology \/ IsContradiction \/ IsSatisfiable

SpecSemantics == InitSemantics /\ [][NextSemantics]_vars

\* The textbook truth tables, one row per pair of operand values.
TextbookTable(op) ==
    CASE op = <<"&">> ->
           (<<TRUE, TRUE>> :> TRUE @@ <<TRUE, FALSE>> :> FALSE
            @@ <<FALSE, TRUE>> :> FALSE @@ <<FALSE, FALSE>> :> FALSE)
      [] op = <<"|">> ->
           (<<TRUE, TRUE>> :> TRUE @@ <<TRUE, FALSE>> :> TRUE
            @@ <<FALSE, TRUE>> :> TRUE @@ <<FALSE, FALSE>> :> FALSE)
      [] op = <<"-", ">">> ->
           (<<TRUE, TRUE>> :> TRUE @@ <<TRUE, FALSE>> :> FALSE
            @@ <<FALSE, TRUE>> :> TRUE @@ <<FALSE, FALSE>> :> TRUE)
      [] op = <<"+">> ->
           (<<TRUE, TRUE>> :> FALSE @@ <<TRUE, FALSE>> :> TRUE
            @@ <<FALSE, TRUE>> :> TRUE @@ <<FALSE, FALSE>> :> FALSE)
      [] op = <<"<", "-", ">">> ->
           (<<TRUE, TRUE>> :> TRUE @@ <<TRUE, FALSE>> :> FALSE
            @@ <<FALSE, TRUE>> :> FALSE @@ <<FALSE, FALSE>> :> TRUE)
      [] op = <<"-", "&">> ->
           (<<TRUE, TRUE>> :> FALSE @@ <<TRUE, FALSE>> :> TRUE
            @@ <<FALSE, TRUE>> :> TRUE @@ <<FALSE, FALSE>> :> TRUE)
      [] op = <<"-", "|">> ->
           (<<TRUE, TRUE>> :> FALSE @@ <<TRUE, FALSE>> :> FALSE
            @@ <<FALSE, TRUE>> :> FALSE @@ <<FALSE, FALSE>> :> TRUE)

(* C3: in a model that covers the formula, evaluate returns for a binary   *)
(* root the entry of the operator's textbook truth table at the values of  *)
(* the two operands, for '~' the negation of the operand's value, for 'T'  *)
(* true, for 'F' false, and for a variable the model's value.              *)
C3_EvaluateTruthTables ==
    (pc = "evaluate" /\ formula_variables(formula) \subseteq DOMAIN model) =>
        IF formula.root \in BinaryOperators
        THEN result = TextbookTable(formula.root)[
                          <<evaluate(formula.first, model),
                            evaluate(formula.second, model)>>]
        ELSE IF formula.root = <<"~">>
        THEN result = ~evaluate(formula.first, model)
        ELSE IF formula.root = <<"T">> THEN result = TRUE
        ELSE IF formula.root = <<"F">> THEN result = FALSE
        ELSE result = model[formula.root]

C3_Witness ==
    /\ pc = "evaluate"
    /\ formula.root = <<"-", "&">>
    /\ formula.first.root = <<"~">>
    /\ formula.second.root = <<"q">>
    /\ formula_variables(formula) \subseteq DOMAIN model
    /\ ~evaluate(formula.first, model)
    /\ ~evaluate(formula.second, model)
    /\ result = TRUE

(* C7: for every formula f, also one without variables, is_tautology(f)    *)
(* equals not is_satisfiable(Formula('~', f)) and is_contradiction(f)      *)
(* equals not is_satisfiable(f).                                           *)
C7_ClassificationConsistency ==
    /\ pc = "is_tautology" =>
           result = ~is_satisfiable(Formula(<<"~">>, formula, None))
    /\ pc = "is_contradiction" => result = ~is_satisfiable(formula)

C7_Witness ==
    /\ pc = "is_tautology"
    /\ result = TRUE
    /\ formula.root = <<"|">>
    /\ formula_variables(formula) = {<<"p">>}

\* Whether a returned value is a truth value (and not a failed assert).
IsTruthValue(v) == ToString(v) \in {"TRUE", "FALSE"}

(* C11: evaluate(formula, model) returns a truth value whenever the        *)
(* variables of the formula are a subset of the keys of the model (extra   *)
(* keys allowed), and fails its contract, returning no truth value,        *)
(* whenever a variable of the formula is missing from the model, also when *)
(* the value of that variable could not change the result.                 *)
C11_EvaluateRequiresCover ==
    pc = "evaluate" =>
        IF formula_variables(formula) \subseteq DOMAIN model
        THEN IsTruthValue(result)
        ELSE ~IsTruthValue(result) /\ result = AssertionError

\* (F&q) in a model that binds p and x12 but not q.
C11_Witness ==
    /\ pc = "evaluate"
    /\ formula = [root |-> <<"&">>, first |-> [root |-> <<"F">>],
                  second |-> [root |-> <<"q">>]]
    /\ DOMAIN model = {<<"p">>, <<"x", "1", "2">>}
    /\ ~IsTruthValue(result)

\* Whether two models bind every variable of f, and to the same value.
CoverAndAgree(f, m1, m2) ==
    \A v \in formula_variables(f) :
        v \in DOMAIN m1 /\ v \in DOMAIN m2 /\ m1[v] = m2[v]

(* C15: evaluate depends only on the bindings of the variables of the      *)
(* formula: two models that both cover them and agree on each of them,     *)
(* whatever else they bind, give the same value.                           *)
C15_EvaluateReadsOwnVariablesOnly ==
    (pc = "evaluate" /\ formula_variables(formula) \subseteq DOMAIN model) =>
        /\ IsTruthValue(result)
        /\ \A m2 \in Models :
               CoverAndAgree(formula, model, m2) =>
                   evaluate(formula, m2) = result

\* (q->F) in a model that also binds p and x12.
C15_Witness ==
    /\ pc = "evaluate"
    /\ formula = [root |-> <<"-", ">">>, first |-> [root |-> <<"q">>],
                  second |-> [root |-> <<"F">>]]
    /\ DOMAIN model = {<<"p">>, <<"q">>, <<"x", "1", "2">>}
    /\ model[<<"p">>] /\ ~model[<<"q">>]
    /\ result = TRUE
    /\ \E m2 \in Models :
         /\ m2 # model
         /\ CoverAndAgree(formula, model, m2)

-----------------------------------------------------------------------------
(* Synthesis of a formula in DNF or CNF from a truth table.                *)

\* The loop of _synthesize_for_model over vars_sorted[k:], folding '&'.
RECURSIVE ConjunctionLoop(_, _, _, _)
ConjunctionLoop(m, vars_sorted, k, conj) ==
    IF k > Len(vars_sorted) THEN conj
    ELSE LET v       == vars_sorted[k]
             literal == IF m[v] THEN Formula(v, None, None)
                        ELSE Formula(<<"~">>, Formula(v, None, None), None)
         IN  ConjunctionLoop(m, vars_sorted, k + 1,
                             Formula(<<"&">>, conj, literal))

\* A clause that stops after the literal of the first variable name.
_synthesize_for_model_first_literal(m) ==
    LET v0 == sorted(DOMAIN m)[1]
    IN  IF m[v0] THEN Formula(v0, None, None)
        ELSE Formula(<<"~">>, Formula(v0, None, None), None)

_synthesize_for_model(m) ==
    IF ~is_model(m) \/ ~(Cardinality(DOMAIN m) > 0) THEN AssertionError
    ELSE LET vars_sorted == sorted(DOMAIN m)
             v0          == vars_sorted[1]
             conj        == IF m[v0] THEN Formula(v0, None, None)
                            ELSE Formula(<<"~">>, Formula(v0, None, None), None)
         IN  ConjunctionLoop(m, vars_sorted, 2, conj)

\* [models[i] for i, val in enumerate(values_list) if val = keep]
RECURSIVE SelectModels(_, _, _, _)
SelectModels(models, values_list, keep, k) ==
    IF k > Len(values_list) THEN <<>>
    ELSE (IF values_list[k] = keep THEN <<models[k]>> ELSE <<>>)
         \o SelectModels(models, values_list, keep, k + 1)

\* The loop of synthesize over true_models[k:], folding '|'.
RECURSIVE DnfLoop(_, _, _)
DnfLoop(true_models, k, dnf) ==
    IF k > Len(true_models) THEN dnf
    ELSE DnfLoop(true_models, k + 1,
                 Formula(<<"|">>, dnf, _synthesize_for_model(true_models[k])))

synthesize(names, values_list) ==
    IF ~(Len(names) > 0) THEN AssertionError
    ELSE IF \E i \in 1..Len(names) : ~is_variable(names[i]) THEN AssertionError
    ELSE LET models == all_models(names) IN
    IF Len(values_list) # Len(models) THEN AssertionError
    ELSE LET true_models == SelectModels(models, values_list, TRUE, 1) IN
    IF Len(true_models) = 0
    THEN LET p == names[1]
         IN  Formula(<<"&">>, Formula(p, None, None),
                     Formula(<<"~">>, Formula(p, None, None), None))
    ELSE DnfLoop(true_models, 2, _synthesize_for_model(true_models[1]))

\* The loop of _synthesize_for_all_except_model over vars_sorted[k:].
RECURSIVE DisjunctionLoop(_, _, _, _)
DisjunctionLoop(m, vars_sorted, k, disj) ==
    IF k > Len(vars_sorted) THEN disj
    ELSE LET v      == vars_sorted[k]
             clause == IF m[v]
                       THEN Formula(<<"~">>, Formula(v, None, None), None)
                       ELSE Formula(v, None, None)
         IN  DisjunctionLoop(m, vars_sorted, k + 1,
                             Formula(<<"|">>, disj, clause))

\* A clause whose first literal has the polarity of the model.
_synthesize_for_all_except_model_first_as_is(m) ==
    LET vars_sorted == sorted(DOMAIN m)
        v0          == vars_sorted[1]
        disj        == IF m[v0] THEN Formula(v0, None, None)
                       ELSE Formula(<<"~">>, Formula(v0, None, None), None)
    IN  DisjunctionLoop(m, vars_sorted, 2, disj)

_synthesize_for_all_except_model(m) ==
    IF ~is_model(m) \/ ~(Cardinality(DOMAIN m) > 0) THEN AssertionError
    ELSE LET vars_sorted == sorted(DOMAIN m)
             v0          == vars_sorted[1]
             disj        == IF m[v0]
                            THEN Formula(<<"~">>, Formula(v0, None, None), None)
                            ELSE Formula(v0, None, None)
         IN  DisjunctionLoop(m, vars_sorted, 2, disj)

\* The loop of synthesize_cnf over false_models[k:], folding '&'.
RECURSIVE CnfLoop(_, _, _)
CnfLoop(false_models, k, cnf) ==
    IF k > Len(false_models) THEN cnf
    ELSE CnfLoop(false_models, k + 1,
                 Formula(<<"&">>, cnf,
                         _synthesize_for_all_except_model(false_models[k])))

synthesize_cnf(names, values_list) ==
    IF ~(Len(names) > 0) THEN AssertionError
    ELSE IF \E i \in 1..Len(names) : ~is_variable(names[i]) THEN AssertionError
    ELSE LET models == all_models(names) IN
    IF Len(values_list) # Len(models) THEN AssertionError
    ELSE LET false_models == SelectModels(models, values_list, FALSE, 1) IN
    IF Len(false_models) = 0
    THEN LET p == names[1]
         IN  Formula(<<"|">>, Formula(p, None, None),
                     Formula(<<"~">>, Formula(p, None, None), None))
    ELSE CnfLoop(false_models, 2,
                 _synthesize_for_all_except_model(false_models[1]))

-----------------------------------------------------------------------------
(* The synthesis specification: a list of distinct variable names in any   *)
(* order and one truth value per model; enumerate the models, synthesize.  *)

SynthesisNames == {<<"q">>, <<"p", "1", "0">>, <<"p", "2">>}

\* The lists of n distinct names.
DistinctLists(n) ==
    {l \in [1..n -> SynthesisNames] : \A i, j \in 1..n : i # j => l[i] # l[j]}

InitSynthesis ==
    /\ \E n \in 0..MaxVars :
         /\ variable_names \in DistinctLists(n)
         /\ values \in [1..(2 ^ n) -> BOOLEAN]
    /\ formula = None
    /\ string = <<>>
    /\ model = <<>>
    /\ substitution_map = <<>>
    /\ result = None
    /\ pc = "start"

AllModels ==
    /\ pc = "start"
    /\ result' = all_models(variable_names)
    /\ pc' = "all_models"
    /\ UNCHANGED <<formula, string, model, variable_names, values,
                   substitution_map>>

Synthesize ==
    /\ pc = "start"
    /\ result' = synthesize(variable_names, values)
    /\ pc' = "synthesize"
    /\ UNCHANGED <<formula, string, model, variable_names, values,
                   substitution_map>>

SynthesizeCnf ==
    /\ pc = "start"
    /\ result' = synthesize_cnf(variable_names, values)
    /\ pc' = "synthesize_cnf"
    /\ UNCHANGED <<formula, string, model, variable_names, values,
                   substitution_map>>

NextSynthesis == AllModels \/ Synthesize \/ SynthesizeCnf

SpecSynthesis == InitSynthesis /\ [][NextSynthesis]_vars

Leaf(v) == [root |-> v]

Not(f) == [root |-> <<"~">>, first |-> f]

(* C4: for a nonempty list of distinct variable names in any order and     *)
(* 2^n truth values, evaluating synthesize(variables, values) on the i-th  *)
(* model of all_models(variables) gives values[i] for every i; when no     *)
(* value is true the result is exactly (v&~v), v the first given name.     *)
C4_SynthesizeTruthTable ==
    (pc = "synthesize" /\ Len(variable_names) > 0) =>
        /\ \A i \in 1..Len(values) :
               evaluate(result, all_models(variable_names)[i]) = values[i]
        /\ (\A i \in 1..Len(values) : ~values[i]) =>
               result = [root |-> <<"&">>,
                         first |-> Leaf(variable_names[1]),
                         second |-> Not(Leaf(variable_names[1]))]

C4_Witness ==
    /\ pc = "synthesize"
    /\ variable_names = << <<"q">>, <<"p", "1", "0">> >>
    /\ values = <<FALSE, TRUE, TRUE, FALSE>>
    /\ "first" \in DOMAIN result

\* The clauses of a left-nested conjunction of count clauses, in order.
RECURSIVE ClausesOf(_, _)
ClausesOf(f, count) ==
    IF count = 1 THEN <<f>>
    ELSE Append(ClausesOf(f.first, count - 1), f.second)

\* The positions of the false values, in increasing order.
RECURSIVE FalsePositions(_, _)
FalsePositions(vals, k) ==
    IF k > Len(vals) THEN <<>>
    ELSE (IF vals[k] THEN <<>> ELSE <<k>>) \o FalsePositions(vals, k + 1)

(* C5: for a nonempty list of distinct variable names in any order and     *)
(* 2^n truth values, evaluating synthesize_cnf(variables, values) on the   *)
(* i-th model of all_models(variables) gives values[i] for every i; the    *)
(* result is the conjunction of one clause per false value, each false     *)
(* exactly at the assignment it was built from; when no value is false     *)
(* the result is exactly (v|~v), v the first given name.                   *)
C5_SynthesizeCnfTruthTable ==
    (pc = "synthesize_cnf" /\ Len(variable_names) > 0) =>
        LET models == all_models(variable_names)
            falses == FalsePositions(values, 1)
        IN  /\ \A i \in 1..Len(values) : evaluate(result, models[i]) = values[i]
            /\ Len(falses) > 0 =>
                   LET clauses == ClausesOf(result, Len(falses))
                   IN  \A c \in 1..Len(falses) : \A i \in 1..Len(models) :
                           evaluate(clauses[c], models[i]) = (i # falses[c])
            /\ Len(falses) = 0 =>
                   result = [root |-> <<"|">>,
                             first |-> Leaf(variable_names[1]),
                             second |-> Not(Leaf(variable_names[1]))]

C5_Witness ==
    /\ pc = "synthesize_cnf"
    /\ variable_names = << <<"q">>, <<"p", "1", "0">> >>
    /\ values = <<FALSE, TRUE, FALSE, TRUE>>
    /\ result.root = <<"&">>

\* The number a model spells when its values are read as binary digits in
\* the order of the names, the first name first.
RECURSIVE BinaryValue(_, _, _)
BinaryValue(m, names, k) ==
    IF k = 0 THEN 0
    ELSE 2 * BinaryValue(m, names, k - 1) + (IF m[names[k]] THEN 1 ELSE 0)

(* C6: for n distinct variable names all_models yields exactly 2^n models, *)
(* each a total assignment over exactly the given names, each assignment   *)
(* exactly once, in the order of an n-bit binary counter from all-false to *)
(* all-true whose most significant bit is the first name; for n = 0 it     *)
(* yields exactly one empty model.                                         *)
C6_AllModelsOrder ==
    pc = "all_models" =>
        LET n == Len(variable_names) IN
        /\ Len(result) = 2 ^ n
        /\ \A k \in 1..Len(result) :
               /\ DOMAIN result[k] = Range(variable_names)
               /\ \A v \in DOMAIN result[k] : result[k][v] \in BOOLEAN
               /\ BinaryValue(result[k], variable_names, n) = k - 1
        /\ \A j, k \in 1..Len(result) : j # k => result[j] # result[k]
        /\ {result[k] : k \in 1..Len(result)}
               = [Range(variable_names) -> BOOLEAN]
        /\ n = 0 => result = << <<>> >>

C6_Witness ==
    /\ pc = "all_models"
    /\ variable_names = << <<"q">>, <<"p", "2">> >>
    /\ result[2] = (<<"q">> :> FALSE @@ <<"p", "2">> :> TRUE)

-----------------------------------------------------------------------------
(* Substitution of variables and of operators.                             *)

\* dict.get(key, default)
get(map, key, default) == IF key \in DOMAIN map THEN map[key] ELSE default

\* A substitution that substitutes again inside what it has inserted.
RECURSIVE substitute_variables_again(_, _)
substitute_variables_again(f, map) ==
    IF \E variable \in DOMAIN map : ~is_variable(variable) THEN AssertionError
    ELSE IF is_variable(f.root)
    THEN IF f.root \in DOMAIN map /\ map[f.root] # f
         THEN substitute_variables_again(map[f.root],
                  [k \in DOMAIN map \ {f.root} |-> map[k]])
         ELSE f
    ELSE IF is_constant(f.root) THEN f
    ELSE LET first      == getattr_first(f)
             second     == getattr_second(f)
             new_first  == IF first # None
                           THEN substitute_variables_again(first, map)
                           ELSE None
             new_second == IF second # None
                           THEN substitute_variables_again(second, map)
                           ELSE None
         IN  Formula(f.root, new_first, new_second)

RECURSIVE substitute_variables(_, _)
substitute_variables(f, map) ==
    IF \E variable \in DOMAIN map : ~is_variable(variable) THEN AssertionError
    ELSE IF is_variable(f.root) THEN get(map, f.root, f)
    ELSE IF is_constant(f.root) THEN f
    ELSE LET first      == getattr_first(f)
             second     == getattr_second(f)
             new_first  == IF first # None
                           THEN substitute_variables(first, map)
                           ELSE None
             new_second == IF second # None
                           THEN substitute_variables(second, map)
                           ELSE None
         IN  Formula(f.root, new_first, new_second)

\* Binds 'p' and 'q' to the operands as they were before rewriting.
InstantiateTemplateRaw(template, first, new_first, second, new_second) ==
    LET subs == (IF first # None THEN <<"p">> :> first ELSE <<>>)
                @@ (IF second # None THEN <<"q">> :> second ELSE <<>>)
    IN  substitute_variables(template, subs)

\* Binds 'p', substitutes, then binds 'q' and substitutes again.
InstantiateTemplateInTurn(template, first, new_first, second, new_second) ==
    LET bound_p == IF first # None
                   THEN substitute_variables(template, <<"p">> :> new_first)
                   ELSE template
    IN  IF second # None
        THEN substitute_variables(bound_p, <<"q">> :> new_second)
        ELSE bound_p

\* The tail of substitute_operators at a node whose root is a key: subs
\* binds 'p' and 'q' to the rewritten operands that exist, and the template
\* is instantiated by one substitute_variables.
InstantiateTemplate(template, first, new_first, second, new_second) ==
    LET subs == (IF first # None THEN <<"p">> :> new_first ELSE <<>>)
                @@ (IF second # None THEN <<"q">> :> new_second ELSE <<>>)
    IN  substitute_variables(template, subs)

RECURSIVE substitute_operators(_, _)
substitute_operators(f, map) ==
    IF \E operator \in DOMAIN map :
           \/ ~(is_constant(operator) \/ is_unary(operator)
                \/ is_binary(operator))
           \/ ~(formula_variables(map[operator]) \subseteq {<<"p">>, <<"q">>})
    THEN AssertionError
    ELSE IF is_variable(f.root) THEN f
    ELSE LET first      == getattr_first(f)
             second     == getattr_second(f)
             new_first  == IF first # None
                           THEN substitute_operators(first, map)
                           ELSE None
             new_second == IF second # None
                           THEN substitute_operators(second, map)
                           ELSE None
         IN  IF f.root \notin DOMAIN map
             THEN Formula(f.root, new_first, new_second)
             ELSE InstantiateTemplate(map[f.root], first, new_first,
                                      second, new_second)

-----------------------------------------------------------------------------
(* The substitution specification: a receiver formula and a substitution   *)
(* map for either substitution.                                            *)

SubstLeaves == {Formula(a, None, None) : a \in {<<"p">>, <<"q">>, <<"T">>}}

\* The replacement formulas of the variable maps: (q&r), p, T, ~q.
Replacements ==
    {Formula(<<"&">>, Formula(<<"q">>, None, None),
             Formula(<<"r">>, None, None)),
     Formula(<<"p">>, None, None),
     Formula(<<"T">>, None, None),
     Formula(<<"~">>, Formula(<<"q">>, None, None), None)}

VariableMaps ==
    UNION {[S -> Replacements] : S \in SUBSET {<<"p">>, <<"q">>}}

\* The templates of the operator maps, by key:
\* '&': ~(~p|~q), (q&p);  '~': (p-&q), ~~p, (p-&p);  'T': (p|~p).
Templates(key) ==
    LET P == Formula(<<"p">>, None, None)
        Q == Formula(<<"q">>, None, None)
        N(g) == Formula(<<"~">>, g, None)
    IN  CASE key = <<"&">> -> {N(Formula(<<"|">>, N(P), N(Q))),
                               Formula(<<"&">>, Q, P)}
          [] key = <<"~">> -> {Formula(<<"-", "&">>, P, Q), N(N(P)),
                               Formula(<<"-", "&">>, P, P)}
          [] key = <<"T">> -> {Formula(<<"|">>, P, N(P))}

OperatorMaps ==
    UNION {{m \in [S -> UNION {Templates(k) : k \in S}] :
               \A k \in S : m[k] \in Templates(k)}
           : S \in SUBSET {<<"&">>, <<"~">>, <<"T">>}}

InitSubstitution ==
    /\ formula \in FormulasUpTo(SubstLeaves, MaxSubstNodes)
    /\ string = <<>>
    /\ model = <<>>
    /\ variable_names = <<>>
    /\ values = <<>>
    /\ substitution_map = <<>>
    /\ result = None
    /\ pc = "start"

SubstituteVariables ==
    /\ pc = "start"
    /\ \E map \in VariableMaps :
         /\ substitution_map' = map
         /\ result' = substitute_variables(formula, map)
    /\ pc' = "substitute_variables"
    /\ UNCHANGED <<formula, string, model, variable_names, values>>

SubstituteOperators ==
    /\ pc = "start"
    /\ \E map \in OperatorMaps :
         /\ substitution_map' = map
         /\ result' = substitute_operators(formula, map)
    /\ pc' = "substitute_operators"
    /\ UNCHANGED <<formula, string, model, variable_names, values>>

NextSubstitution == SubstituteVariables \/ SubstituteOperators

SpecSubstitution == InitSubstitution /\ [][NextSubstitution]_vars

\* Whether a character can start, or continue, a variable name.
IsNameStart(c) == c \in {"p", "q", "r", "x"}

IsNameDigit(c) == c \in {"0", "1", "2"}

\* The end of the variable name that starts at position i of s.
RECURSIVE NameEnd(_, _)
NameEnd(s, i) ==
    IF i < Len(s) /\ IsNameDigit(s[i + 1]) THEN NameEnd(s, i + 1) ELSE i

\* One left-to-right pass over the printed receiver from position i: every
\* variable name that is a key is replaced by the printed form of its
\* formula, every other character is copied, and what was written is never
\* read again.
RECURSIVE OnePass(_, _, _)
OnePass(s, i, map) ==
    IF i > Len(s) THEN <<>>
    ELSE IF IsNameStart(s[i])
    THEN LET e    == NameEnd(s, i)
             name == SubSeq(s, i, e)
         IN  (IF name \in DOMAIN map THEN __repr__(map[name]) ELSE name)
             \o OnePass(s, e + 1, map)
    ELSE <<s[i]>> \o OnePass(s, i + 1, map)

(* C8: substitute_variables is one simultaneous pass: every occurrence in  *)
(* the receiver of a variable that is a key of the map is replaced by its  *)
(* formula, constants and unmapped variables are kept, and variables       *)
(* inside an inserted replacement are not substituted again.               *)
C8_SubstituteVariablesSinglePass ==
    pc = "substitute_variables" =>
        /\ "root" \in DOMAIN result
        /\ __repr__(result) = OnePass(__repr__(formula), 1, substitution_map)

\* {p: (q&r), q: p} applied to ((p->p)|q) gives (((q&r)->(q&r))|p).
C8_Witness ==
    /\ pc = "substitute_variables"
    /\ __repr__(formula)
         = <<"(", "(", "p", "-", ">", "p", ")", "|", "q", ")">>
    /\ DOMAIN substitution_map = {<<"p">>, <<"q">>}
    /\ __repr__(substitution_map[<<"p">>]) = <<"(", "q", "&", "r", ")">>
    /\ substitution_map[<<"q">>] = [root |-> <<"p">>]
    /\ __repr__(result)
         = <<"(", "(", "(", "q", "&", "r", ")", "-", ">",
             "(", "q", "&", "r", ")", ")", "|", "p", ")">>

\* The template t with every 'p' replaced by a and every 'q' by b, where an
\* operand that does not exist (None) leaves its marker in place.
RECURSIVE Instance(_, _, _)
Instance(t, a, b) ==
    IF t.root = <<"p">> THEN (IF a = None THEN t ELSE a)
    ELSE IF t.root = <<"q">> THEN (IF b = None THEN t ELSE b)
    ELSE IF "second" \in DOMAIN t
    THEN [root |-> t.root, first |-> Instance(t.first, a, b),
          second |-> Instance(t.second, a, b)]
    ELSE IF "first" \in DOMAIN t
    THEN [root |-> t.root, first |-> Instance(t.first, a, b)]
    ELSE t

(* C9: substitute_operators rewrites bottom-up: at a node whose operator   *)
(* or constant is a key, the result is the key's template with every 'p'   *)
(* replaced by the rewritten first operand and every 'q' by the rewritten  *)
(* second operand; a node whose root is no key is rebuilt with its         *)
(* rewritten children; the operators of a template are not substituted     *)
(* again, and a 'p' or 'q' of an operand is not captured by the binding.   *)
C9_SubstituteOperatorsBottomUp ==
    pc = "substitute_operators" =>
        LET a == IF "first" \in DOMAIN formula
                 THEN substitute_operators(formula.first, substitution_map)
                 ELSE None
            b == IF "second" \in DOMAIN formula
                 THEN substitute_operators(formula.second, substitution_map)
                 ELSE None
        IN  IF formula.root \in DOMAIN substitution_map
            THEN result = Instance(substitution_map[formula.root], a, b)
            ELSE IF b # None
            THEN result = [root |-> formula.root, first |-> a, second |-> b]
            ELSE IF a # None
            THEN result = [root |-> formula.root, first |-> a]
            ELSE result = formula

\* {'&': ~(~p|~q)} applied to ((q&p)&T) gives ~(~~(~q|~p)|~T).
C9_Witness ==
    /\ pc = "substitute_operators"
    /\ __repr__(formula)
         = <<"(", "(", "q", "&", "p", ")", "&", "T", ")">>
    /\ DOMAIN substitution_map = {<<"&">>}
    /\ __repr__(substitution_map[<<"&">>])
         = <<"~", "(", "~", "p", "|", "~", "q", ")">>
    /\ __repr__(result)
         = <<"~", "(", "~", "~", "(", "~", "q", "|", "~", "p", ")", "|",
             "~", "T", ")">>

-----------------------------------------------------------------------------
(* The meaning specification: operators are substituted in a receiver      *)
(* formula, and the receiver and the result are evaluated in every model.  *)

InitMeaning ==
    /\ formula \in FormulasUpTo(SubstLeaves, MaxMeaningNodes)
    /\ string = <<>>
    /\ model = <<>>
    /\ variable_names = <<>>
    /\ values = <<>>
    /\ substitution_map = <<>>
    /\ result = None
    /\ pc = "start"

NextMeaning == SubstituteOperators

SpecMeaning == InitMeaning /\ [][NextMeaning]_vars

\* The value of the operator or constant op applied to a (and b).
OperatorValue(op, a, b) ==
    IF op \in BinaryOperators THEN TextbookTable(op)[<<a, b>>]
    ELSE IF op = <<"~">> THEN ~a
    ELSE op = <<"T">>

\* Whether the template of every key evaluates, under every assignment to
\* p and q, to the value of the key applied to p (and q).
TemplatesMeanTheirOperators(map) ==
    \A op \in DOMAIN map : \A a, b \in BOOLEAN :
        evaluate(map[op], <<"p">> :> a @@ <<"q">> :> b)
            = OperatorValue(op, a, b)

\* No key that occurs in no template occurs in the operators of f.
AbsentKeysEliminated(f, map) ==
    \A k \in DOMAIN map :
        (\A k2 \in DOMAIN map : k \notin operators(map[k2]))
            => k \notin operators(f)

(* C14 as stated: when every template means its operator, then for every   *)
(* formula f and every model covering the variables of f,                  *)
(* evaluate(f.substitute_operators(map), model) = evaluate(f, model), and  *)
(* no key of the map that is absent from all templates occurs in the       *)
(* operators of the result.                                                *)
C14_AsStated ==
    (pc = "substitute_operators"
     /\ TemplatesMeanTheirOperators(substitution_map)) =>
        /\ \A m \in Models :
               formula_variables(formula) \subseteq DOMAIN m =>
                   /\ IsTruthValue(evaluate(result, m))
                   /\ evaluate(result, m) = evaluate(formula, m)
        /\ AbsentKeysEliminated(result, substitution_map)

(* C14, amended: when every template means its operator, then for every    *)
(* formula f and every model covering the variables of f and of            *)
(* f.substitute_operators(map), evaluating the result gives the value of   *)
(* f, and no key of the map that is absent from all templates occurs in    *)
(* the operators of the result.                                            *)
C14_SubstituteOperatorsPreservesMeaning ==
    (pc = "substitute_operators"
     /\ TemplatesMeanTheirOperators(substitution_map)) =>
        /\ \A m \in Models :
               (/\ formula_variables(formula) \subseteq DOMAIN m
                /\ formula_variables(result) \subseteq DOMAIN m) =>
                   evaluate(result, m) = evaluate(formula, m)
        /\ AbsentKeysEliminated(result, substitution_map)

\* {'&': ~(~p|~q), 'T': (p|~p)} applied to (q&T) gives ~(~q|~(p|~p)), which
\* has the variable p that the receiver has not.
C14_Witness ==
    /\ pc = "substitute_operators"
    /\ TemplatesMeanTheirOperators(substitution_map)
    /\ DOMAIN substitution_map = {<<"&">>, <<"T">>}
    /\ __repr__(formula) = <<"(", "q", "&", "T", ")">>
    /\ __repr__(result)
         = <<"~", "(", "~", "q", "|", "~", "(", "p", "|", "~", "p", ")", ")">>
    /\ formula_variables(result) = {<<"p">>, <<"q">>}
    /\ operators(result) = {<<"~">>, <<"|">>}

-----------------------------------------------------------------------------
(* The strings specification: the printed form of a formula, changed by    *)
(* at most one edit (a character inserted, deleted or replaced), is given  *)
(* to is_formula.                                                          *)

Characters == Letters \cup Digits \cup {ArabicIndicThree} \cup Symbols

SeedLeaves ==
    {Formula(a, None, None) : a \in {<<"p">>, <<"x", "1">>, <<"T">>}}

InitStrings ==
    /\ \E f \in FormulasUpTo(SeedLeaves, MaxSeedNodes) :
         string \in {__repr__(f), polish(f)}
    /\ formula = None
    /\ model = <<>>
    /\ variable_names = <<>>
    /\ values = <<>>
    /\ substitution_map = <<>>
    /\ result = None
    /\ pc = "seed"

InsertCharacter ==
    /\ pc = "seed"
    /\ \E i \in 0..Len(string), c \in Characters :
         string' = SliceTo(string, i) \o <<c>> \o SliceFrom(string, i)
    /\ pc' = "edited"
    /\ UNCHANGED <<formula, model, variable_names, values, substitution_map,
                   result>>

DeleteCharacter ==
    /\ pc = "seed"
    /\ \E i \in 1..Len(string) :
         string' = SliceTo(string, i - 1) \o SliceFrom(string, i)
    /\ pc' = "edited"
    /\ UNCHANGED <<formula, model, variable_names, values, substitution_map,
                   result>>

ReplaceCharacter ==
    /\ pc = "seed"
    /\ \E i \in 1..Len(string), c \in Characters :
         string' = [string EXCEPT ![i] = c]
    /\ pc' = "edited"
    /\ UNCHANGED <<formula, model, variable_names, values, substitution_map,
                   result>>

CheckIsFormula ==
    /\ pc \in {"seed", "edited"}
    /\ result' = is_formula(string)
    /\ pc' = "is_formula"
    /\ UNCHANGED <<formula, string, model, variable_names, values,
                   substitution_map>>

ParsePrefix ==
    /\ pc \in {"seed", "edited"}
    /\ result' = _parse_prefix(string)
    /\ pc' = "parse_prefix"
    /\ UNCHANGED <<formula, string, model, variable_names, values,
                   substitution_map>>

ParsePolishPrefix ==
    /\ pc \in {"seed", "edited"}
    /\ result' = _parse_polish_prefix(string)
    /\ pc' = "parse_polish_prefix"
    /\ UNCHANGED <<formula, string, model, variable_names, values,
                   substitution_map>>

NextStrings ==
    \/ InsertCharacter
    \/ DeleteCharacter
    \/ ReplaceCharacter
    \/ CheckIsFormula
    \/ ParsePrefix
    \/ ParsePolishPrefix

SpecStrings == InitStrings /\ [][NextStrings]_vars

\* variable = [p-z][0-9]*
GrammarVariable(s) ==
    /\ Len(s) >= 1
    /\ s[1] \in {"p", "q", "r", "x"}
    /\ \A i \in 2..Len(s) : s[i] \in {"0", "1", "2"}

GrammarBinop(s) ==
    s \in {<<"&">>, <<"|">>, <<"-", ">">>, <<"+">>, <<"<", "-", ">">>,
           <<"-", "&">>, <<"-", "|">>}

\* formula ::= variable | constant | '~' formula
\*           | '(' formula binop formula ')'
RECURSIVE Derivable(_)
Derivable(s) ==
    \/ GrammarVariable(s)
    \/ s = <<"T">>
    \/ s = <<"F">>
    \/ Len(s) >= 2 /\ s[1] = "~" /\ Derivable(Tail(s))
    \/ /\ Len(s) >= 5
       /\ s[1] = "("
       /\ s[Len(s)] = ")"
       /\ \E i \in 2..(Len(s) - 3) : \E n \in 1..3 :
            /\ i + n + 1 <= Len(s) - 1
            /\ GrammarBinop(SubSeq(s, i + 1, i + n))
            /\ Derivable(SubSeq(s, 2, i))
            /\ Derivable(SubSeq(s, i + n + 1, Len(s) - 1))

(* C10: for every string s, is_formula(s) is true if and only if s is      *)
(* derivable from formula ::= variable | constant | '~' formula |          *)
(* '(' formula binop formula ')' with variable = [p-z][0-9]*.              *)
C10_IsFormulaIffGrammar ==
    pc = "is_formula" => (result = Derivable(string))

\* The same equivalence on the strings all of whose characters are ASCII.
IsFormulaIffGrammarOnAscii ==
    (pc = "is_formula"
     /\ \A i \in 1..Len(string) : string[i] # ArabicIndicThree)
        => (result = Derivable(string))

\* The texts that open the parsers' diagnostics.
Diagnostics ==
    {"unexpected end of input", "invalid variable name: ",
     "expected binary operator", "expected ')'", "unexpected token: "}

\* got is <<formula, suffix of s>> or <<None, diagnostic>>.
IsParseOutcome(got, s) ==
    /\ Len(got) = 2
    /\ IF got[1] = None
       THEN Len(got[2]) > 0 /\ got[2][1] \in Diagnostics
       ELSE /\ "root" \in DOMAIN got[1]
            /\ \E i \in 0..Len(s) : got[2] = SliceFrom(s, i)

\* A failed operand of '~' or of '(' is the failure of the whole parse.
PrefixPropagates(s, got) ==
    (Len(s) > 0 /\ s[1] \in {"~", "("}) =>
        LET l == _parse_prefix(SliceFrom(s, 1))
            n == BinaryOperatorLength(l[2])
        IN  IF l[1] = None THEN got = l
            ELSE (s[1] = "(" /\ n > 0) =>
                    LET r == _parse_prefix(SliceFrom(l[2], n))
                    IN  r[1] = None => got = r

\* A failed operand of '~', '&', '|' or '->' is the failure of the whole
\* parse.
PolishPropagates(s, got) ==
    LET k == IF startswith(s, <<"-", ">">>) THEN 2
             ELSE IF Len(s) > 0 /\ s[1] \in {"~", "&", "|"} THEN 1
             ELSE 0
    IN  k > 0 =>
            LET l == _parse_polish_prefix(SliceFrom(s, k))
            IN  IF l[1] = None THEN got = l
                ELSE s[1] # "~" =>
                        LET r == _parse_polish_prefix(l[2])
                        IN  r[1] = None => got = r

(* C12: for every input string, the empty one included, _parse_prefix and  *)
(* _parse_polish_prefix return either (formula, remaining suffix) or       *)
(* (None, message), the message non-empty and opening with one of the five *)
(* diagnostics, and the failure of a sub-parse is the failure of the whole *)
(* parse, unchanged.                                                       *)
C12_ParsersReportFailuresAsPairs ==
    /\ pc = "parse_prefix" =>
           IsParseOutcome(result, string) /\ PrefixPropagates(string, result)
    /\ pc = "parse_polish_prefix" =>
           IsParseOutcome(result, string) /\ PolishPropagates(string, result)

\* '&p)': the left operand parses, the right one fails on ')', and the
\* whole parse fails with the right operand's message.
C12_Witness ==
    /\ pc = "parse_polish_prefix"
    /\ string = <<"&", "p", ")">>
    /\ result = <<None, <<"unexpected token: ", ")">> >>
    /\ _parse_polish_prefix(<<"p", ")">>)[1] # None

\* The prefixes of s that the grammar derives, by their lengths.
ValidPrefixes(s) == {n \in 1..Len(s) : Derivable(SliceTo(s, n))}

Longest(S) == CHOOSE n \in S : \A k \in S : k <= n

LongestPrefixParsed(s, got) ==
    IF ValidPrefixes(s) # {}
    THEN /\ got[1] # None
         /\ __repr__(got[1]) = SliceTo(s, Longest(ValidPrefixes(s)))
         /\ __repr__(got[1]) \o got[2] = s
    ELSE got[1] = None /\ Len(got[2]) > 0

(* C13: for every string s, if some prefix of s is a valid formula in      *)
(* standard notation then _parse_prefix(s) returns (f, rest) with str(f)   *)
(* the longest such prefix and str(f) + rest = s; if no prefix of s is a   *)
(* valid formula it returns None with an error message.                    *)
C13_LongestPrefix ==
    pc = "parse_prefix" => LongestPrefixParsed(string, result)

\* The same statement on the strings all of whose characters are ASCII.
LongestPrefixOnAscii ==
    (pc = "parse_prefix"
     /\ \A i \in 1..Len(string) : string[i] # ArabicIndicThree)
        => LongestPrefixParsed(string, result)

====
